---------------------------- MODULE Spec2Model ----------------------------
(***************************************************************************)
(* Model of the batch document-assembly pipeline of src/main.go:           *)
(* processCandidates (the HTTP handler, its goroutines, WaitGroup, mutex   *)
(* and deferred cleanup), handleCandidate (the five per-candidate stages)  *)
(* and zipFolder, over an abstract file system.                            *)
(*                                                                         *)
(* Strings of the program are sequences of one-character strings (emails,  *)
(* URLs, labels) or sequences of message fragments (error texts).  A file  *)
(* is a record [fmt, pages]; a page is a record naming the document it     *)
(* comes from and the candidate (index in the request) it belongs to.      *)
(* A path is the sequence of its segments as filepath.Join leaves them.    *)
(*                                                                         *)
(* Spec is the handler serving one request.  HelperSpec applies            *)
(* sanitizeFilename and the derivation of a candidate's paths to one       *)
(* string on its own, drawn from GivenStrings.                             *)
(*                                                                         *)
(* The external collaborators (gofpdf, the HTTP server behind a resume    *)
(* URL, libreoffice, pdfunite, the operating system) answer                *)
(* nondeterministically; what they answered to task i is kept in env[i].   *)
(* os.RemoveAll of the job's own freshly created directory is taken to     *)
(* succeed.                                                                *)
(***************************************************************************)
EXTENDS Integers, Sequences, FiniteSets, TLC

\* Largest number of candidates in a request.
MaxCands == 2

\* http.StatusOK
StatusOK == 200

\* Status codes the server behind a resume URL answers with.
StatusCodes == {200, 204, 404}

---------------------------------------------------------------------------
(* Strings *)

Str_a_at_b == <<"a", "@", "b">>
Str_a_us_b == <<"a", "_", "b">>
Str_c_at_d == <<"c", "@", "d">>

Url_pdf    == <<"r", ".", "p", "d", "f">>
Url_PDF    == <<"R", ".", "P", "D", "F">>
Url_doc    == <<"r", ".", "d", "o", "c">>

Label_Acme == <<"A", "c", "m", "e">>

\* Values of tenant_name and company_name in a request ("" when missing).
Labels == {<< >>, Label_Acme}

\* The candidates a request is made of: (email, resume_url).
CandidatePool ==
    { [Email |-> Str_a_at_b, ResumeURL |-> Url_pdf],
      [Email |-> Str_a_us_b, ResumeURL |-> Url_PDF],
      [Email |-> Str_c_at_d, ResumeURL |-> Url_doc],
      [Email |-> Str_a_at_b, ResumeURL |-> Url_doc] }

\* strings.ReplaceAll(s, old, new) for a one-character old.
ReplaceAll(s, old, new) ==
    [k \in 1..Len(s) |-> IF s[k] = old THEN new ELSE s[k]]

LowerOf(ch) ==
    CASE ch = "R" -> "r"
      [] ch = "P" -> "p"
      [] ch = "D" -> "d"
      [] ch = "F" -> "f"
      [] ch = "A" -> "a"
      [] OTHER    -> ch

\* strings.ToLower
ToLower(s) == [k \in 1..Len(s) |-> LowerOf(s[k])]

\* strings.HasSuffix
HasSuffix(s, suffix) ==
    /\ Len(s) >= Len(suffix)
    /\ SubSeq(s, Len(s) - Len(suffix) + 1, Len(s)) = suffix

\* fmt.Errorf("<cause>: %w", err)
Errorf(cause, err) == <<cause, ": ">> \o err

\* Mutant of ErrorEntry: the entry is the bare error, the email left out.
ErrorEntryNoEmail(email, err) == err

\* fmt.Sprintf("%s: %v", cand.Email, err)
ErrorEntry(email, err) == email \o <<": ">> \o err

---------------------------------------------------------------------------
(* sanitizeFilename *)

\* The length sanitizeFilename cuts a name to.
MaxNameLen == 50

\* The characters sanitizeFilename replaces by an underscore.
UnsafeChars ==
    { " ", "/", "\\", ":", "*", "?", "\"", "<", ">", "|", "@", "#", "%", "&",
      "+", "=" }

\* The sixteen strings.ReplaceAll(filename, c, "_").
ReplaceUnsafe(s) ==
    [k \in 1..Len(s) |-> IF s[k] \in UnsafeChars THEN "_" ELSE s[k]]

\* strings.Contains(filename, "__")
HasDouble(s) == \E k \in 1..Len(s) - 1 : s[k] = "_" /\ s[k + 1] = "_"

\* strings.ReplaceAll(filename, "__", "_"): the matches are taken from the
\* left and do not overlap.
RECURSIVE ReplaceDouble(_)
ReplaceDouble(s) ==
    IF Len(s) < 2 THEN s
    ELSE IF s[1] = "_" /\ s[2] = "_"
         THEN <<"_">> \o ReplaceDouble(SubSeq(s, 3, Len(s)))
         ELSE <<s[1]>> \o ReplaceDouble(Tail(s))

\* for strings.Contains(filename, "__") { filename = ReplaceAll(...) }
RECURSIVE Collapse(_)
Collapse(s) == IF HasDouble(s) THEN Collapse(ReplaceDouble(s)) ELSE s

\* strings.Trim(filename, "_")
RECURSIVE TrimLeft(_)
TrimLeft(s) ==
    IF Len(s) > 0 /\ s[1] = "_" THEN TrimLeft(Tail(s)) ELSE s

RECURSIVE TrimRight(_)
TrimRight(s) ==
    IF Len(s) > 0 /\ s[Len(s)] = "_"
    THEN TrimRight(SubSeq(s, 1, Len(s) - 1)) ELSE s

Trim(s) == TrimRight(TrimLeft(s))

\* if len(filename) > 50 { filename = filename[:50] }
Truncate(s) == IF Len(s) > MaxNameLen THEN SubSeq(s, 1, MaxNameLen) ELSE s

sanitizeFilename(filename) ==
    Truncate(Trim(Collapse(ReplaceUnsafe(filename))))

\* uuid.New().String()
JobID == <<"job-uuid">>

\* fmt.Sprintf("%s_%s_factsheets_%s.zip", tenant, company, jobID)
ZipFileName(tenant, company) ==
    sanitizeFilename(tenant) \o <<"_">> \o sanitizeFilename(company)
        \o <<"_factsheets_">> \o JobID \o <<".zip">>

---------------------------------------------------------------------------
(* Paths: filepath.Join on the paths processCandidates and handleCandidate
   build.  A path is the sequence of its segments below the root. *)

\* The segments of s between its "/" separators.
RECURSIVE Split(_)
Split(s) ==
    IF \A k \in 1..Len(s) : s[k] # "/" THEN << s >>
    ELSE LET k == CHOOSE n \in 1..Len(s) :
                      s[n] = "/" /\ \A m \in 1..n - 1 : s[m] # "/"
         IN  << SubSeq(s, 1, k - 1) >> \o Split(SubSeq(s, k + 1, Len(s)))

\* filepath.Clean of a rooted path: empty and "." segments are dropped, ".."
\* removes the segment before it, and ".." at the root is dropped.
RECURSIVE CleanFrom(_, _)
CleanFrom(done, rest) ==
    IF rest = << >> THEN done
    ELSE IF Head(rest) = << >> \/ Head(rest) = <<".">>
         THEN CleanFrom(done, Tail(rest))
    ELSE IF Head(rest) = <<".", ".">>
         THEN CleanFrom(IF done = << >> THEN done
                        ELSE SubSeq(done, 1, Len(done) - 1), Tail(rest))
    ELSE CleanFrom(Append(done, Head(rest)), Tail(rest))

Clean(segments) == CleanFrom(<< >>, segments)

\* filepath.Join(dir, elem)
Join(dir, elem) == Clean(dir \o Split(elem))

\* baseDir := filepath.Join("/tmp/candidate-processor", jobID)
BaseDir == Join(<< <<"tmp">>, <<"candidate-processor">> >>, JobID)

\* factsheetDir := filepath.Join(baseDir, "factsheets")
FactsheetDir == Join(BaseDir, <<"factsheets">>)

\* tempDir := filepath.Join(baseDir, "temp")
TempDir == Join(BaseDir, <<"temp">>)

\* Mutant of ZipFilePath: the archive is written into the job's directory.
ZipFilePathInBaseDir(tenant, company) ==
    Join(BaseDir, ZipFileName(tenant, company))

\* zipFileName := fmt.Sprintf(...), computed once, and then
\* zipPath := filepath.Join("/tmp", zipFileName)
ZipFilePath(tenant, company) ==
    CHOOSE zipPath \in { Join(<< <<"tmp">> >>, zipFileName) :
                           zipFileName \in {ZipFileName(tenant, company)} } :
        TRUE

\* The path as the string filepath.Join returns.
RECURSIVE PathString(_)
PathString(path) ==
    IF path = << >> THEN << >>
    ELSE <<"/">> \o Head(path) \o PathString(Tail(path))

\* path is dir or lies beneath it.
Under(path, dir) ==
    Len(path) >= Len(dir) /\ SubSeq(path, 1, Len(dir)) = dir

\* filepath.Rel(dir, path) for a path beneath dir.
RECURSIVE RelString(_)
RelString(segments) ==
    IF Len(segments) = 0 THEN << >>
    ELSE IF Len(segments) = 1 THEN Head(segments)
    ELSE Head(segments) \o <<"/">> \o RelString(Tail(segments))

RelPath(path, dir) == RelString(SubSeq(path, Len(dir) + 1, Len(path)))

\* path is an entry of dir itself.
DirectChild(path, dir) == Len(path) = Len(dir) + 1 /\ Under(path, dir)

\* zipPath as the response carries it.
ZipPath(tenant, company) == PathString(ZipFilePath(tenant, company))

---------------------------------------------------------------------------
(* Requests *)

CandidateLists == UNION { [1..n -> CandidatePool] : n \in 0..MaxCands }

\* A request as c.BindJSON leaves it: bindOK is FALSE when the body is not
\* the expected JSON.
Requests ==
    [ bindOK : BOOLEAN, TenantName : Labels, CompanyName : Labels,
      Candidates : CandidateLists ]

\* Mutant of Validation: the check of an empty candidate list is missing.
ValidationNoEmptyCheck(r) ==
    IF ~r.bindOK THEN "Invalid input"
    ELSE IF r.TenantName = << >> \/ r.CompanyName = << >>
         THEN "tenant_name and company_name are required"
    ELSE "ok"

\* Mutant of Validation: a request with a repeated email is rejected.
ValidationRejectsDuplicates(r) ==
    IF ~r.bindOK THEN "Invalid input"
    ELSE IF r.TenantName = << >> \/ r.CompanyName = << >>
         THEN "tenant_name and company_name are required"
    ELSE IF Len(r.Candidates) = 0 THEN "candidates list cannot be empty"
    ELSE IF \E i, j \in 1..Len(r.Candidates) :
                i # j /\ r.Candidates[i].Email = r.Candidates[j].Email
         THEN "duplicate email"
    ELSE "ok"

\* The early returns of processCandidates: the text of the 400 response, or
\* "ok" when the request passes.
Validation(r) ==
    IF ~r.bindOK THEN "Invalid input"
    ELSE IF r.TenantName = << >> \/ r.CompanyName = << >>
         THEN "tenant_name and company_name are required"
    ELSE IF Len(r.Candidates) = 0 THEN "candidates list cannot be empty"
    ELSE "ok"

---------------------------------------------------------------------------
(* Files *)

\* The file names handleCandidate derives from an email.
CandKey(email) == ReplaceAll(email, "@", "_")

\* candTempDir := filepath.Join(tempDir, ReplaceAll(cand.Email, "@", "_"))
CandTempDir(email) == Join(TempDir, CandKey(email))

\* factsheetPath := filepath.Join(factsheetDir,
\*     fmt.Sprintf("%s_factsheet.pdf", ReplaceAll(cand.Email, "@", "_")))
FactsheetPath(email) ==
    Join(FactsheetDir, CandKey(email) \o <<"_factsheet.pdf">>)

\* filepath.Join(candTempDir, name)
InTempDir(d, name) == Join(d, name)

\* filepath.Base(path)
Base(path) == path[Len(path)]

ResumeFile(email) == InTempDir(CandTempDir(email), <<"resume">>)

\* resumePDF := resumeFile + ".pdf"
ResumePDF(email) ==
    [ResumeFile(email) EXCEPT ![Len(ResumeFile(email))] = @ \o <<".pdf">>]

MergedPath(email) == InTempDir(CandTempDir(email), <<"merged.pdf">>)

\* The path convertToPDF reports (and libreoffice writes): the input's base
\* name, its extension trimmed ("resume" has none), plus ".pdf", in outputDir.
ConvertOutput(inputPath, outputDir) ==
    InTempDir(outputDir, Base(inputPath) \o <<".pdf">>)

EmptyFS == << >>

Exists(f, p) == p \in DOMAIN f

WriteFile(f, p, c) ==
    [q \in DOMAIN f \cup {p} |-> IF q = p THEN c ELSE f[q]]

RemoveFile(f, p) == [q \in DOMAIN f \ {p} |-> f[q]]

\* os.RemoveAll(dir): dir and everything beneath it.
RemoveAll(f, dir) == [q \in { p \in DOMAIN f : ~Under(p, dir) } |-> f[q]]

\* os.Rename(from, to) when from exists.
RenameFile(f, from, to) == RemoveFile(WriteFile(f, to, f[from]), from)

\* What gofpdf writes for candidate i: one page.
FactsheetDoc(i) ==
    [fmt |-> "pdf", pages |-> << [doc |-> "factsheet", cand |-> i] >>]

\* What the server behind candidate i's resume URL serves: a PDF when the
\* URL names one, a word-processor document otherwise.
ResumeDoc(i, isPdf) ==
    [fmt |-> IF isPdf THEN "pdf" ELSE "doc",
     pages |-> << [doc |-> "resume", cand |-> i] >>]

\* A file whose write was cut short.
PartialDoc == [fmt |-> "partial", pages |-> << >>]

\* libreoffice --convert-to pdf: same pages, canonical format.
Converted(c) == [fmt |-> "pdf", pages |-> c.pages]

\* pdfunite pdf1 pdf2 out: pdf1's pages, then pdf2's.
United(c1, c2) == [fmt |-> "pdf", pages |-> c1.pages \o c2.pages]

\* Mutant of IsPdfURL: the suffix is compared without strings.ToLower.
IsPdfURLCaseSensitive(url) == HasSuffix(url, <<".", "p", "d", "f">>)

\* The URL test of handleCandidate's step 3.
IsPdfURL(url) == HasSuffix(ToLower(url), <<".", "p", "d", "f">>)

NilErr == << >>

---------------------------------------------------------------------------
(* State *)

VARIABLES
    req,          \* the bound request
    pc,           \* where processCandidates is
    launched,     \* candidates the for loop has started a goroutine for
    workspace,    \* baseDir: "none", "exists", "deleted"
    deferred,     \* the cleanup closure is registered
    fs,           \* the files under baseDir: path -> contents
    zipFile,      \* the file at zipPath (outside baseDir), or NoZip
    wg,           \* the WaitGroup's counter
    mu,           \* the mutex: 0 when free, else the task holding it
    successCount,
    errors,
    resp,         \* what c.JSON was called with, or NoResp
    tpc,          \* per task: where the goroutine is
    ret,          \* per task: what handleCandidate returned
    tmp,          \* per task: the value read inside the critical section
    calls,        \* per task: the collaborators invoked so far, in order
    env,          \* per task: what the outside world answered
    zipCalls,     \* number of calls of zipFolder
    zipErr,       \* what zipFolder returned: "unset", "nil" or "error"
    given,        \* a string handed to a helper function on its own
    cleaned,      \* the results of sanitizeFilename applied to it, in turn
    derived       \* the paths handleCandidate derives from it, or NoPaths

vars ==
    << req, pc, launched, workspace, deferred, fs, zipFile, wg, mu,
       successCount, errors, resp, tpc, ret, tmp, calls, env, zipCalls,
       zipErr, given, cleaned, derived >>

\* The variables only the helper functions' own runs use.
pureVars == << given, cleaned, derived >>

N == Len(req.Candidates)
Tasks == 1..N
Cand(i) == req.Candidates[i]

NoResp == [code |-> 0]
NoZip == [exists |-> FALSE]
NoTmp == [count |-> 0, errs |-> << >>]
NoEnv == [fault |-> "none", status |-> 0]
NoPaths == [set |-> FALSE]

Init ==
    /\ req \in Requests
    /\ pc = "start"
    /\ launched = 0
    /\ workspace = "none"
    /\ deferred = FALSE
    /\ fs = EmptyFS
    /\ zipFile = NoZip
    /\ wg = 0
    /\ mu = 0
    /\ successCount = 0
    /\ errors = << >>
    /\ resp = NoResp
    /\ tpc = [i \in 1..Len(req.Candidates) |-> "idle"]
    /\ ret = [i \in 1..Len(req.Candidates) |-> NilErr]
    /\ tmp = [i \in 1..Len(req.Candidates) |-> NoTmp]
    /\ calls = [i \in 1..Len(req.Candidates) |-> << >>]
    /\ env = [i \in 1..Len(req.Candidates) |-> NoEnv]
    /\ zipCalls = 0
    /\ zipErr = "unset"
    /\ given = << >>
    /\ cleaned = << >>
    /\ derived = NoPaths

---------------------------------------------------------------------------
(* processCandidates *)

taskVars == << tpc, ret, tmp, calls, env >>
zipVars == << zipFile, zipCalls, zipErr >>
sharedVars == << wg, mu, successCount, errors >>

\* A validation failure: the 400 response and return, before any directory
\* is made or any defer is registered.
Reject ==
    /\ pc = "start"
    /\ Validation(req) # "ok"
    /\ resp' = [code |-> 400, error |-> Validation(req)]
    /\ pc' = "done"
    /\ UNCHANGED << pureVars, req, launched, workspace, deferred, fs, zipVars,
                    sharedVars, taskVars >>

\* Mutant of Setup: the cleanup closure is called on the spot instead of
\* being deferred.
SetupCleanupNotDeferred ==
    /\ pc = "start"
    /\ Validation(req) = "ok"
    /\ workspace' = "deleted"
    /\ pc' = "spawn"
    /\ UNCHANGED << pureVars, req, launched, deferred, fs, zipVars, resp, sharedVars,
                    taskVars >>

\* A request that passes: jobID, the two os.MkdirAll, the defer.  The
\* errors of os.MkdirAll are dropped by the code; a directory that could not
\* be made shows as failures of the stages and of zipFolder below.
Setup ==
    /\ pc = "start"
    /\ Validation(req) = "ok"
    /\ workspace' = "exists"
    /\ deferred' = TRUE
    /\ pc' = "spawn"
    /\ UNCHANGED << pureVars, req, launched, fs, zipVars, resp, sharedVars,
                    taskVars >>

\* One turn of the for loop: wg.Add(1) and go func(cand).  After the last
\* turn the handler is at wg.Wait().
Spawn ==
    /\ pc = "spawn"
    /\ launched < N
    /\ launched' = launched + 1
    /\ wg' = wg + 1
    /\ tpc' = [tpc EXCEPT ![launched + 1] = "render"]
    /\ pc' = IF launched + 1 = N THEN "wait" ELSE "spawn"
    /\ UNCHANGED << pureVars, req, workspace, deferred, fs, zipVars, resp,
                    mu, successCount, errors, ret, tmp, calls, env >>

\* Mutant of WaitReturns: the barrier lets the handler go while one task is
\* still running.
WaitReturnsEarly == wg <= 1

\* What wg.Wait() waits for.
WaitReturns == wg = 0

Wait ==
    /\ pc = "wait"
    /\ WaitReturns
    /\ pc' = "zip"
    /\ UNCHANGED << pureVars, req, launched, workspace, deferred, fs, zipVars,
                    resp, sharedVars, taskVars >>

\* filepath.Walk(sourceDir) of zipFolder with every file read: one entry per
\* regular file under factsheetDir, named by its path relative to it.
ZipEntries(f) ==
    LET files == { p \in DOMAIN f : Under(p, FactsheetDir) }
        names == { RelPath(p, FactsheetDir) : p \in files }
    IN  [ n \in names |->
            f[CHOOSE p \in files : RelPath(p, FactsheetDir) = n] ]

\* Mutant of JobResponse: the status is decided by the success count.
JobResponseByCount(errs, count) ==
    LET base == [ code |-> 200,
                  job_id |-> JobID,
                  tenant_name |-> req.TenantName,
                  company_name |-> req.CompanyName,
                  zip_file_path |->
                      ZipPath(req.TenantName, req.CompanyName),
                  zip_file_name |->
                      ZipFileName(req.TenantName, req.CompanyName),
                  total_candidates |-> N,
                  processed_successfully |-> count,
                  errors_count |-> Len(errs) ]
    IN  IF count = 0
        THEN base @@ [errors |-> errs, status |-> "completed_with_errors"]
        ELSE base @@ [status |-> "completed_successfully"]

\* The response of a job whose archive was written.
JobResponse(errs, count) ==
    LET base == [ code |-> 200,
                  job_id |-> JobID,
                  tenant_name |-> req.TenantName,
                  company_name |-> req.CompanyName,
                  zip_file_path |->
                      ZipPath(req.TenantName, req.CompanyName),
                  zip_file_name |->
                      ZipFileName(req.TenantName, req.CompanyName),
                  total_candidates |-> N,
                  processed_successfully |-> count,
                  errors_count |-> Len(errs) ]
    IN  IF Len(errs) > 0
        THEN base @@ [errors |-> errs, status |-> "completed_with_errors"]
        ELSE base @@ [status |-> "completed_successfully"]

\* zipFolder(factsheetDir, zipPath) and, when it fails, the 500 response and
\* return.  os.Create may fail (no file), the walk may fail (an unfinished
\* file is left behind).
Zip ==
    /\ pc = "zip"
    /\ zipCalls' = zipCalls + 1
    /\ \E answer \in {"ok", "create fails", "walk fails"} :
         LET outcome == IF answer = "ok" /\ workspace # "exists"
                        THEN "walk fails" ELSE answer
         IN  /\ zipFile' =
                   CASE outcome = "ok" ->
                          [exists |-> TRUE, complete |-> TRUE,
                           entries |-> ZipEntries(fs)]
                     [] outcome = "walk fails" ->
                          [exists |-> TRUE, complete |-> FALSE,
                           entries |-> << >>]
                     [] OTHER -> zipFile
             /\ zipErr' = IF outcome = "ok" THEN "nil" ELSE "error"
             /\ IF outcome = "ok"
                THEN /\ pc' = "respond"
                     /\ resp' = resp
                ELSE /\ pc' = "cleanup"
                     /\ resp' = [code |-> 500, error |-> "Failed to zip files"]
    /\ UNCHANGED << pureVars, req, launched, workspace, deferred, fs, sharedVars,
                    taskVars >>

\* The response map and c.JSON(http.StatusOK, response).
Respond ==
    /\ pc = "respond"
    /\ resp' = JobResponse(errors, successCount)
    /\ pc' = "cleanup"
    /\ UNCHANGED << pureVars, req, launched, workspace, deferred, fs, zipVars,
                    sharedVars, taskVars >>

\* Mutant of Cleanup: the directory is removed at the end of the success
\* path only, not by a deferred closure.
CleanupOnlyOnSuccess ==
    /\ pc = "cleanup"
    /\ IF resp.code = 200
       THEN fs' = EmptyFS /\ workspace' = "deleted"
       ELSE fs' = fs /\ workspace' = workspace
    /\ pc' = "done"
    /\ UNCHANGED << pureVars, req, launched, deferred, zipVars, resp, sharedVars,
                    taskVars >>

\* The handler returns: the deferred closure runs os.RemoveAll(baseDir).
Cleanup ==
    /\ pc = "cleanup"
    /\ deferred
    /\ fs' = RemoveAll(fs, BaseDir)
    /\ zipFile' = IF Under(ZipFilePath(req.TenantName, req.CompanyName),
                           BaseDir)
                  THEN NoZip ELSE zipFile
    /\ workspace' = "deleted"
    /\ pc' = "done"
    /\ UNCHANGED << pureVars, req, launched, deferred, zipCalls, zipErr, resp,
                    sharedVars, taskVars >>

---------------------------------------------------------------------------
(* handleCandidate, one action per stage *)

Email(i) == Cand(i).Email

\* handleCandidate returns err to the goroutine, which goes on to record it.
Return(i, err, fault, status) ==
    /\ ret' = [ret EXCEPT ![i] = err]
    /\ env' = [env EXCEPT ![i] = [fault |-> fault, status |-> status]]
    /\ tpc' = [tpc EXCEPT ![i] = "lock"]

\* The stage succeeded: on to the next one.
Proceed(i, stage, fault) ==
    /\ tpc' = [tpc EXCEPT ![i] = stage]
    /\ env' = [env EXCEPT ![i].fault = fault]
    /\ ret' = ret

Invoke(i, what) == calls' = [calls EXCEPT ![i] = Append(@, what)]

RenderError   == Errorf("failed to generate factsheet", <<"render error">>)
ConvertError  ==
    Errorf("conversion failed", <<"exit status 1", ": ", "stderr">>)
MergeError    ==
    Errorf("failed to merge pdfs",
           <<"pdfunite failed: ", "exit status 1", " - ", "stderr">>)
ReplaceError  == Errorf("failed to move merged file", <<"rename error">>)

\* Step 1: os.MkdirAll(candTempDir), generateFactsheetPDF(cand, factsheetPath).
Render(i) ==
    /\ tpc[i] = "render"
    /\ Invoke(i, "generateFactsheetPDF")
    /\ \E ok \in BOOLEAN :
         IF ok /\ workspace = "exists"
         THEN /\ fs' = WriteFile(fs, FactsheetPath(Email(i)), FactsheetDoc(i))
              /\ Proceed(i, "fetch", "none")
         ELSE /\ fs' = fs
              /\ Return(i, RenderError, "render", 0)
    /\ UNCHANGED << pureVars, req, pc, launched, workspace, deferred, zipVars,
                    resp, sharedVars, tmp >>

\* What the network and the disk answer to one downloadFile.
DownloadAnswers ==
    [ net : {"ok"}, status : StatusCodes,
      write : {"ok", "create fails", "copy fails"} ]
    \cup { [net |-> "fails", status |-> 0, write |-> "ok"] }

\* downloadFile's checks, in its order: which of them fails ("none" when it
\* returns nil).
DownloadFault(a) ==
    IF a.net # "ok" THEN "net"
    ELSE IF a.status # StatusOK THEN "http"
    ELSE IF a.write = "create fails" THEN "create"
    ELSE IF a.write = "copy fails" THEN "copy"
    ELSE "none"

\* downloadFile's error for each of them.
DownloadError(a) ==
    CASE DownloadFault(a) = "net"    -> <<"net error">>
      [] DownloadFault(a) = "http"   ->
            <<"failed to download file: HTTP ", ToString(a.status)>>
      [] DownloadFault(a) = "create" -> <<"create error">>
      [] DownloadFault(a) = "copy"   -> <<"copy error">>
      [] OTHER                       -> NilErr

\* Step 2: downloadFile(cand.ResumeURL, resumeFile).
Download(i) ==
    /\ tpc[i] = "fetch"
    /\ Invoke(i, "downloadFile")
    /\ \E a \in DownloadAnswers :
         LET fault == IF DownloadFault(a) = "none" /\ workspace # "exists"
                      THEN "create" ELSE DownloadFault(a)
             err   == IF fault = "create" THEN <<"create error">>
                      ELSE DownloadError(a)
         IN  /\ fs' = CASE fault = "none" ->
                            WriteFile(fs, ResumeFile(Email(i)),
                                      ResumeDoc(i, IsPdfURL(Cand(i).ResumeURL)))
                        [] fault = "copy" ->
                            WriteFile(fs, ResumeFile(Email(i)), PartialDoc)
                        [] OTHER -> fs
             /\ IF fault = "none"
                THEN /\ tpc' = [tpc EXCEPT ![i] = "normalize"]
                     /\ env' = [env EXCEPT ![i] =
                                  [fault |-> "none", status |-> a.status]]
                     /\ ret' = ret
                ELSE Return(i, Errorf("failed to download resume", err),
                            fault, a.status)
    /\ UNCHANGED << pureVars, req, pc, launched, workspace, deferred, zipVars,
                    resp, sharedVars, tmp >>

\* Step 3 for a URL that names a PDF: os.Rename(resumeFile, resumePDF), its
\* error dropped.
RenameResume(i) ==
    /\ tpc[i] = "normalize"
    /\ IsPdfURL(Cand(i).ResumeURL)
    /\ Invoke(i, "os.Rename resume")
    /\ \E ok \in BOOLEAN :
         /\ fs' = IF ok /\ Exists(fs, ResumeFile(Email(i)))
                  THEN RenameFile(fs, ResumeFile(Email(i)),
                                  ResumePDF(Email(i)))
                  ELSE fs
         /\ Proceed(i, "merge", IF ok THEN "none" ELSE "rename")
    /\ UNCHANGED << pureVars, req, pc, launched, workspace, deferred, zipVars,
                    resp, sharedVars, tmp >>

\* Step 3 for any other URL: convertToPDF(resumeFile, candTempDir).
Convert(i) ==
    /\ tpc[i] = "normalize"
    /\ ~IsPdfURL(Cand(i).ResumeURL)
    /\ Invoke(i, "convertToPDF")
    /\ \E ok \in BOOLEAN :
         IF ok /\ Exists(fs, ResumeFile(Email(i)))
         THEN /\ fs' = WriteFile(fs,
                         ConvertOutput(ResumeFile(Email(i)),
                                       CandTempDir(Email(i))),
                         Converted(fs[ResumeFile(Email(i))]))
              /\ Proceed(i, "merge", "none")
         ELSE /\ fs' = fs
              /\ Return(i, ConvertError, IF ok THEN "none" ELSE "convert",
                        env[i].status)
    /\ UNCHANGED << pureVars, req, pc, launched, workspace, deferred, zipVars,
                    resp, sharedVars, tmp >>

\* pdfunite can read p.
Mergeable(f, p) == Exists(f, p) /\ f[p].fmt = "pdf"

\* Step 4: mergePDFs(factsheetPath, resumePDF, mergedPath).
Merge(i) ==
    /\ tpc[i] = "merge"
    /\ Invoke(i, "mergePDFs")
    /\ \E ok \in BOOLEAN :
         IF /\ ok
            /\ Mergeable(fs, FactsheetPath(Email(i)))
            /\ Mergeable(fs, ResumePDF(Email(i)))
         THEN /\ fs' = WriteFile(fs, MergedPath(Email(i)),
                         United(fs[FactsheetPath(Email(i))],
                                fs[ResumePDF(Email(i))]))
              /\ Proceed(i, "replace", env[i].fault)
         ELSE /\ fs' = fs
              /\ Return(i, MergeError,
                        IF ok THEN env[i].fault ELSE "merge", env[i].status)
    /\ UNCHANGED << pureVars, req, pc, launched, workspace, deferred, zipVars,
                    resp, sharedVars, tmp >>

\* Step 5: os.Rename(mergedPath, factsheetPath), then return nil.
Replace(i) ==
    /\ tpc[i] = "replace"
    /\ Invoke(i, "os.Rename merged")
    /\ \E ok \in BOOLEAN :
         IF ok /\ Exists(fs, MergedPath(Email(i)))
         THEN /\ fs' = RenameFile(fs, MergedPath(Email(i)),
                                  FactsheetPath(Email(i)))
              /\ Return(i, NilErr, env[i].fault, env[i].status)
         ELSE /\ fs' = fs
              /\ Return(i, ReplaceError,
                        IF ok THEN env[i].fault ELSE "replace",
                        env[i].status)
    /\ UNCHANGED << pureVars, req, pc, launched, workspace, deferred, zipVars,
                    resp, sharedVars, tmp >>

---------------------------------------------------------------------------
(* The goroutine after handleCandidate returned *)

\* Mutant of CanLock: the lock is no lock.
CanLockAlways(i) == TRUE

\* mu.Lock() returns to task i.
CanLock(i) == mu = 0

Lock(i) ==
    /\ tpc[i] = "lock"
    /\ CanLock(i)
    /\ mu' = i
    /\ tpc' = [tpc EXCEPT ![i] = "load"]
    /\ UNCHANGED << pureVars, req, pc, launched, workspace, deferred, fs, zipVars,
                    resp, wg, successCount, errors, ret, tmp,
                    calls, env >>

\* Mutant of Load: the mutex is released between the read and the write.
LoadReleasesLock(i) ==
    /\ tpc[i] = "load"
    /\ tmp' = [tmp EXCEPT ![i] =
                 IF ret[i] # NilErr
                 THEN [count |-> 0, errs |-> errors]
                 ELSE [count |-> successCount, errs |-> << >>]]
    /\ mu' = 0
    /\ tpc' = [tpc EXCEPT ![i] = "store"]
    /\ UNCHANGED << pureVars, req, pc, launched, workspace, deferred, fs, zipVars,
                    resp, wg, successCount, errors, ret, calls, env >>

\* errors = append(errors, ...) and successCount++ each read the shared
\* variable, then write it.  This is the read.
Load(i) ==
    /\ tpc[i] = "load"
    /\ tmp' = [tmp EXCEPT ![i] =
                 IF ret[i] # NilErr
                 THEN [count |-> 0, errs |-> errors]
                 ELSE [count |-> successCount, errs |-> << >>]]
    /\ tpc' = [tpc EXCEPT ![i] = "store"]
    /\ UNCHANGED << pureVars, req, pc, launched, workspace, deferred, fs, zipVars,
                    resp, sharedVars, ret, calls, env >>

\* And this is the write.
Store(i) ==
    /\ tpc[i] = "store"
    /\ IF ret[i] # NilErr
       THEN /\ errors' = Append(tmp[i].errs, ErrorEntry(Email(i), ret[i]))
            /\ successCount' = successCount
       ELSE /\ successCount' = tmp[i].count + 1
            /\ errors' = errors
    /\ tmp' = [tmp EXCEPT ![i] = NoTmp]
    /\ tpc' = [tpc EXCEPT ![i] = "unlock"]
    /\ UNCHANGED << pureVars, req, pc, launched, workspace, deferred, fs, zipVars,
                    resp, wg, mu, ret, calls, env >>

\* mu.Unlock()
Unlock(i) ==
    /\ tpc[i] = "unlock"
    /\ mu' = 0
    /\ tpc' = [tpc EXCEPT ![i] = "exit"]
    /\ UNCHANGED << pureVars, req, pc, launched, workspace, deferred, fs, zipVars,
                    resp, wg, successCount, errors, ret, tmp,
                    calls, env >>

\* Mutant of Exit: the goroutine ends without wg.Done().
ExitWithoutDone(i) ==
    /\ tpc[i] = "exit"
    /\ tpc' = [tpc EXCEPT ![i] = "done"]
    /\ UNCHANGED << pureVars, req, pc, launched, workspace, deferred, fs, zipVars,
                    resp, wg, mu, successCount, errors, ret, tmp,
                    calls, env >>

\* The deferred wg.Done(): the goroutine ends.
Exit(i) ==
    /\ tpc[i] = "exit"
    /\ wg' = wg - 1
    /\ tpc' = [tpc EXCEPT ![i] = "done"]
    /\ UNCHANGED << pureVars, req, pc, launched, workspace, deferred, fs, zipVars,
                    resp, mu, successCount, errors, ret, tmp,
                    calls, env >>

---------------------------------------------------------------------------

Next ==
    \/ Reject
    \/ Setup
    \/ Spawn
    \/ Wait
    \/ Zip
    \/ Respond
    \/ Cleanup
    \/ \E i \in Tasks : Render(i)
    \/ \E i \in Tasks : Download(i)
    \/ \E i \in Tasks : RenameResume(i)
    \/ \E i \in Tasks : Convert(i)
    \/ \E i \in Tasks : Merge(i)
    \/ \E i \in Tasks : Replace(i)
    \/ \E i \in Tasks : Lock(i)
    \/ \E i \in Tasks : Load(i)
    \/ \E i \in Tasks : Store(i)
    \/ \E i \in Tasks : Unlock(i)
    \/ \E i \in Tasks : Exit(i)

Spec == Init /\ [][Next]_vars

---------------------------------------------------------------------------
(* Properties *)

Range(q) == { q[k] : k \in 1..Len(q) }

\* handleCandidate has returned to task i's goroutine.
Returned(i) == tpc[i] \in {"lock", "load", "store", "unlock", "exit", "done"}

Succeeded == { i \in Tasks : Returned(i) /\ ret[i] = NilErr }
Failed    == { i \in Tasks : Returned(i) /\ ret[i] # NilErr }

\* The job's result has been returned.
JobResult == resp.code = 200

\* No other candidate of the request has the scratch directory or the
\* artifact path of candidate i.
OwnFiles(i) ==
    \A j \in Tasks \ {i} :
        /\ CandTempDir(Email(j)) # CandTempDir(Email(i))
        /\ FactsheetPath(Email(j)) # FactsheetPath(Email(i))

\* The task's outcome is the one its own stages produce: nil exactly when
\* the outside world failed none of them.
OwnOutcome(i) == ret[i] = NilErr <=> env[i].fault = "none"

\* C1: in every returned job result, processed_successfully plus
\* errors_count equals total_candidates, the number of candidates of the
\* request.
C1_Accounting ==
    JobResult =>
        /\ resp.total_candidates = Len(req.Candidates)
        /\ resp.processed_successfully + resp.errors_count
             = resp.total_candidates

\* A result of two candidates, one of each outcome.
C1_Witness ==
    /\ JobResult
    /\ resp.total_candidates = 2
    /\ resp.processed_successfully = 1
    /\ resp.errors_count = 1

\* C2: the failure of one candidate's task never changes the outcome of
\* another's.  Taken for a task j that failed in its download: every other
\* task still ends as its own stages decide.
C2_Original ==
    \A i \in Tasks : \A j \in Tasks \ {i} :
        ( /\ Returned(i)
          /\ j \in Failed
          /\ calls[j][Len(calls[j])] = "downloadFile" )
        => OwnOutcome(i)

\* What does hold of failures: a failed task leaves the mutex free and the
\* barrier open for the others; a candidate whose scratch directory and
\* artifact path are its own succeeds exactly when nothing failed in its
\* own stages, whatever happened to the others; a request that passed
\* validation ends in a hard error only when zipFolder failed; and the
\* result counts every candidate by what its own handleCandidate returned.
IsolationWithOwnFiles ==
    /\ \A i \in Tasks :
         /\ tpc[i] \in {"exit", "done"} => mu # i
         /\ Returned(i) /\ OwnFiles(i) => OwnOutcome(i)
    /\ (pc = "wait" /\ \A i \in Tasks : tpc[i] = "done") => wg = 0
    /\ resp.code = 500 => zipErr = "error"
    /\ resp.code = 400 => launched = 0
    /\ JobResult =>
         /\ resp.processed_successfully = Cardinality(Succeeded)
         /\ resp.errors_count = Cardinality(Failed)

\* C3: zipFolder is called at most once, exactly once in a job that has
\* answered or ended, and only when every candidate has a task that has
\* ended; and no response is produced while a task is running.
C3_JoinBarrier ==
    /\ zipCalls <= 1
    /\ zipCalls = 1 =>
         /\ launched = Len(req.Candidates)
         /\ \A i \in Tasks : tpc[i] = "done"
    /\ resp # NoResp => \A i \in Tasks : tpc[i] \in {"idle", "done"}
    /\ resp.code \in {200, 500} => zipCalls = 1
    /\ (workspace # "none" /\ pc \in {"respond", "cleanup", "done"})
         => zipCalls = 1

\* zipFolder has been called in a job of two candidates.
C3_Witness ==
    /\ zipCalls = 1
    /\ Len(req.Candidates) = 2
    /\ JobResult

\* C4: the workspace is deleted only when every task has ended and
\* zipFolder has returned, and nothing touches it afterwards: when the
\* deletion is about to run or has run, no task is anywhere but at its end
\* and the handler is past zipFolder.
C4_TeardownLast ==
    /\ pc = "cleanup" =>
         /\ zipErr # "unset"
         /\ \A i \in Tasks : tpc[i] = "done"
    /\ workspace = "deleted" =>
         /\ pc = "done"
         /\ zipErr # "unset"
         /\ launched = Len(req.Candidates)
         /\ \A i \in Tasks : tpc[i] = "done"

\* The workspace of a job of two candidates has been deleted.
C4_Witness ==
    /\ workspace = "deleted"
    /\ Len(req.Candidates) = 2
    /\ zipErr = "nil"

MergedPages(i) ==
    << [doc |-> "factsheet", cand |-> i], [doc |-> "resume", cand |-> i] >>

\* C6: the archive holds exactly the artifacts of the candidates counted as
\* successful: every entry is the merged document of a successful candidate
\* under the name made from its email, every successful candidate has its
\* entry, and no page of a failed candidate is in the archive.
C6_ArchiveOfSuccesses ==
    zipErr = "nil" =>
        /\ \A n \in DOMAIN zipFile.entries :
             \E i \in Succeeded :
                 /\ n = Base(FactsheetPath(Email(i)))
                 /\ zipFile.entries[n].pages = MergedPages(i)
        /\ \A i \in Succeeded :
             Base(FactsheetPath(Email(i))) \in DOMAIN zipFile.entries
        /\ \A i \in Failed : \A n \in DOMAIN zipFile.entries :
             \A k \in 1..Len(zipFile.entries[n].pages) :
                 zipFile.entries[n].pages[k].cand # i

\* C7: a job result has status "completed_successfully" exactly when the
\* failure list is empty; otherwise its status is "completed_with_errors"
\* and it carries the failure list, which is not empty; there is no third
\* status.
C7_Status ==
    JobResult =>
        /\ resp.status \in {"completed_successfully", "completed_with_errors"}
        /\ resp.status = "completed_successfully" <=> Len(errors) = 0
        /\ resp.errors_count = Len(errors)
        /\ resp.status = "completed_with_errors" =>
             /\ "errors" \in DOMAIN resp
             /\ resp.errors = errors
             /\ Len(resp.errors) > 0

\* A result with errors although a candidate succeeded.
C7_Witness ==
    /\ JobResult
    /\ resp.status = "completed_with_errors"
    /\ resp.processed_successfully = 1

StageCause(call) ==
    CASE call = "generateFactsheetPDF" -> "failed to generate factsheet"
      [] call = "downloadFile"         -> "failed to download resume"
      [] call = "convertToPDF"         -> "conversion failed"
      [] call = "mergePDFs"            -> "failed to merge pdfs"
      [] call = "os.Rename merged"     -> "failed to move merged file"
      [] OTHER                         -> "none"

StartsWith(e, prefix) ==
    Len(e) >= Len(prefix) /\ SubSeq(e, 1, Len(prefix)) = prefix

\* e reports the failure of task i: it starts with the email, names the
\* cause of the stage that failed (the last one the task invoked) and goes
\* on with the lower-level detail, the status code for an HTTP failure.
EntryOf(i, e) ==
    /\ StartsWith(e, Email(i))
    /\ \E k \in Len(Email(i)) + 1 .. Len(e) - 2 :
           e[k] = StageCause(calls[i][Len(calls[i])])
    /\ env[i].fault = "http" => ToString(env[i].status) \in Range(e)

ReportedErrors == IF "errors" \in DOMAIN resp THEN resp.errors ELSE << >>

\* C9: the failure list of a job result has exactly one entry per failed
\* candidate, each with the email, the cause and the detail of its failure;
\* and with two candidates, one whose resume URL answered 404 and one that
\* succeeded, the result counts one success and one error, whose entry
\* holds that email and "404".
C9_FailureEntries ==
    JobResult =>
        /\ Len(ReportedErrors) = Cardinality(Failed)
        /\ \E f \in [Failed -> 1..Len(ReportedErrors)] :
             /\ \A i, j \in Failed : f[i] = f[j] => i = j
             /\ \A i \in Failed : EntryOf(i, ReportedErrors[f[i]])
        /\ \A i \in Tasks : \A j \in Tasks \ {i} :
             ( /\ Len(req.Candidates) = 2
               /\ env[i].fault = "http"
               /\ env[i].status = 404
               /\ ret[j] = NilErr ) =>
                 /\ resp.processed_successfully = 1
                 /\ resp.errors_count = 1
                 /\ Len(ReportedErrors) = 1
                 /\ StartsWith(ReportedErrors[1], Email(i))
                 /\ "404" \in Range(ReportedErrors[1])

\* The result of two candidates, the first one's resume URL answered 404.
C9_Witness ==
    /\ JobResult
    /\ Len(req.Candidates) = 2
    /\ env[1].fault = "http"
    /\ env[1].status = 404
    /\ ret[2] = NilErr
    /\ Len(ReportedErrors) = 1

\* The URL ends in ".pdf", letter case set aside.
NamesPdf(url) ==
    /\ Len(url) >= 4
    /\ ToLower(SubSeq(url, Len(url) - 3, Len(url))) = <<".", "p", "d", "f">>

\* C10: for a resume URL that ends in ".pdf" in any letter case
\* convertToPDF is never invoked and the third call is the rename, which
\* leaves the fetched contents as they were; for any other URL there is no
\* rename, convertToPDF is invoked right after downloadFile and right before
\* mergePDFs, and when it fails the candidate is recorded as failed with the
\* cause "conversion failed", in a result that still counts the others.
C10_FormatRouting ==
    \A i \in Tasks :
        LET c == calls[i]
        IN  IF NamesPdf(Cand(i).ResumeURL)
            THEN /\ "convertToPDF" \notin Range(c)
                 /\ Len(c) >= 3 =>
                      /\ c[2] = "downloadFile"
                      /\ c[3] = "os.Rename resume"
                 /\ tpc[i] \in {"merge", "replace"} => Len(c) >= 3
                 /\ (tpc[i] = "merge" /\ env[i].fault = "none" /\ OwnFiles(i))
                      => /\ ~Exists(fs, ResumeFile(Email(i)))
                         /\ Exists(fs, ResumePDF(Email(i)))
                         /\ fs[ResumePDF(Email(i))] = ResumeDoc(i, TRUE)
            ELSE /\ "os.Rename resume" \notin Range(c)
                 /\ Len(c) >= 3 =>
                      /\ c[2] = "downloadFile"
                      /\ c[3] = "convertToPDF"
                 /\ Len(c) >= 4 => c[4] = "mergePDFs"
                 /\ tpc[i] \in {"merge", "replace"} => Len(c) >= 3
                 /\ (Returned(i) /\ Len(c) = 3) =>
                      /\ ret[i] # NilErr
                      /\ ret[i][1] = "conversion failed"
                 /\ (JobResult /\ Len(c) = 3) =>
                      /\ \E k \in 1..Len(ReportedErrors) :
                           /\ StartsWith(ReportedErrors[k], Email(i))
                           /\ "conversion failed" \in Range(ReportedErrors[k])
                      /\ resp.processed_successfully = Cardinality(Succeeded)

\* A result of two candidates: one with an upper-case ".PDF" URL that
\* succeeded, one with a ".doc" URL whose conversion failed.
C10_Witness ==
    /\ JobResult
    /\ Len(req.Candidates) = 2
    /\ \E i \in Tasks : \E j \in Tasks :
         /\ Cand(i).ResumeURL = Url_PDF
         /\ ret[i] = NilErr
         /\ Cand(j).ResumeURL = Url_doc
         /\ calls[j] = <<"generateFactsheetPDF", "downloadFile", "convertToPDF">>
         /\ resp.processed_successfully = 1

---------------------------------------------------------------------------
(* Merge order *)

\* C11: for every successful candidate, the final artifact at the
\* candidate's artifact path is the candidate's rendered factsheet's pages
\* followed by the candidate's normalized resume's pages: as many pages as
\* the two together, the factsheet's first.
C11_MergeOrder ==
    pc = "zip" =>
        \A i \in Succeeded :
            /\ Exists(fs, FactsheetPath(Email(i)))
            /\ fs[FactsheetPath(Email(i))].pages = MergedPages(i)
            /\ Len(fs[FactsheetPath(Email(i))].pages)
                   = Len(FactsheetDoc(i).pages)
                         + Len(ResumeDoc(i, TRUE).pages)

\* The same for the candidates whose files no other candidate of the
\* request shares.
MergeOrderWithOwnFiles ==
    pc = "zip" =>
        \A i \in Succeeded :
            OwnFiles(i) =>
                /\ Exists(fs, FactsheetPath(Email(i)))
                /\ fs[FactsheetPath(Email(i))].pages = MergedPages(i)
                /\ fs[FactsheetPath(Email(i))].pages[1].doc = "factsheet"

---------------------------------------------------------------------------
(* The helper functions on their own: sanitizeFilename and the derivation of
   a candidate's paths, applied to a string drawn from GivenStrings. *)

\* Longest string of which every combination of characters is tried.
MaxGivenLen == 3

\* Number of times sanitizeFilename is applied in turn.
MaxPasses == 2

GivenChars == {"a", "_", " ", ".", "/", "@"}

ShortStrings(n) == UNION { [1..k -> GivenChars] : k \in 0..n }

\* k letters.
Pad(k) == [j \in 1..k |-> "a"]

\* Strings around the length sanitizeFilename truncates at.
LongStrings ==
    { Pad(k) \o t : k \in (MaxNameLen - 2)..(MaxNameLen + 1),
                    t \in ShortStrings(2) }

\* "../../a", "a/../../..", "1.5-x!"
Str_up_up_a == <<".", ".", "/", ".", ".", "/", "a">>
Str_a_up3   == <<"a", "/", ".", ".", "/", ".", ".", "/", ".", ".">>
Str_punct   == <<"1", ".", "5", "-", "x", "!">>

GivenStrings ==
    ShortStrings(MaxGivenLen) \cup LongStrings
        \cup {Str_up_up_a, Str_a_up3, Str_punct}

HelperInit ==
    /\ given \in GivenStrings
    /\ cleaned = << >>
    /\ derived = NoPaths
    /\ req = [bindOK |-> FALSE, TenantName |-> << >>,
              CompanyName |-> << >>, Candidates |-> << >>]
    /\ pc = "start"
    /\ launched = 0
    /\ workspace = "none"
    /\ deferred = FALSE
    /\ fs = EmptyFS
    /\ zipFile = NoZip
    /\ wg = 0
    /\ mu = 0
    /\ successCount = 0
    /\ errors = << >>
    /\ resp = NoResp
    /\ tpc = << >>
    /\ ret = << >>
    /\ tmp = << >>
    /\ calls = << >>
    /\ env = << >>
    /\ zipCalls = 0
    /\ zipErr = "unset"

handlerVars ==
    << req, pc, launched, workspace, deferred, fs, zipFile, wg, mu,
       successCount, errors, resp, tpc, ret, tmp, calls, env, zipCalls,
       zipErr >>

\* sanitizeFilename applied to the string, then to its own result.
SanitizeStep ==
    /\ Len(cleaned) < MaxPasses
    /\ cleaned' = Append(cleaned,
                         sanitizeFilename(IF cleaned = << >> THEN given
                                          ELSE cleaned[Len(cleaned)]))
    /\ UNCHANGED << given, derived, handlerVars >>

\* The first two statements of handleCandidate, the string being the email.
DerivePaths ==
    /\ derived = NoPaths
    /\ derived' = [set |-> TRUE,
                   candTempDir |-> CandTempDir(given),
                   factsheetPath |-> FactsheetPath(given)]
    /\ UNCHANGED << given, cleaned, handlerVars >>

HelperNext == SanitizeStep \/ DerivePaths

HelperSpec == HelperInit /\ [][HelperNext]_vars

\* C12: sanitizeFilename is idempotent: applied to its own result it returns
\* that result, for every label, those longer than the truncation length
\* included.
C12_Idempotent ==
    Len(cleaned) >= 2 => cleaned[2] = cleaned[1]

\* The same for the labels sanitizeFilename does not truncate.
IdempotentWithoutTruncation ==
    (Len(cleaned) >= 2 /\ Len(Trim(Collapse(ReplaceUnsafe(given)))) <= MaxNameLen)
        => cleaned[2] = cleaned[1]

---------------------------------------------------------------------------
(* The archive and the teardown *)

---------------------------------------------------------------------------
(* The shared counter and failure list *)

\* Task i is between mu.Lock() and mu.Unlock().
InCritical(i) == tpc[i] \in {"load", "store", "unlock"}

\* Task i has written its outcome to the shared variables.
Recorded(i) == tpc[i] \in {"unlock", "exit", "done"}

\* C14: every update of the shared success counter and failure list is made
\* by a task holding the mutex; at most one task is in the critical section
\* at any time; no update is lost: the counter and the list count exactly
\* the tasks that have recorded their outcome; and the handler reads the
\* counter and the list only after every task has ended.
C14_GuardedAccumulator ==
    /\ [](/\ \A i \in Tasks : InCritical(i) => mu = i
          /\ Cardinality({ i \in Tasks : InCritical(i) }) <= 1
          /\ successCount
               = Cardinality({ i \in Tasks : Recorded(i) /\ ret[i] = NilErr })
          /\ Len(errors)
               = Cardinality({ i \in Tasks : Recorded(i) /\ ret[i] # NilErr })
          /\ pc \in {"zip", "respond"} => \A i \in Tasks : tpc[i] = "done"
          /\ JobResult =>
               /\ resp.processed_successfully = Cardinality(Succeeded)
               /\ resp.errors_count = Cardinality(Failed))
    /\ [][(successCount' # successCount \/ errors' # errors)
              => \E i \in Tasks : mu = i /\ tpc[i] = "store"]_vars

\* Two tasks have returned and contend for the mutex: one is inside the
\* critical section about to write, the other waits at mu.Lock().
C14_Witness ==
    \E i, j \in Tasks :
        /\ i # j
        /\ tpc[i] = "store" /\ mu = i
        /\ tpc[j] = "lock"

---------------------------------------------------------------------------
(* The stages of one task *)

\* The place of each collaborator in the per-candidate pipeline.
StageNumber(call) ==
    CASE call = "generateFactsheetPDF" -> 1
      [] call = "downloadFile"         -> 2
      [] call = "os.Rename resume"     -> 3
      [] call = "convertToPDF"         -> 3
      [] call = "mergePDFs"            -> 4
      [] call = "os.Rename merged"     -> 5

\* The stages task i has run are the first ones of the pipeline, in its
\* order, each once.
RunInOrder(i) ==
    /\ Len(calls[i]) <= 5
    /\ \A k \in 1..Len(calls[i]) : StageNumber(calls[i][k]) = k

\* Task i has one outcome: nil after all five stages, or the cause of the
\* last stage it ran.
OneOutcome(i) ==
    Returned(i) =>
        IF ret[i] = NilErr THEN Len(calls[i]) = 5
        ELSE /\ Len(calls[i]) >= 1
             /\ ret[i][1] = StageCause(calls[i][Len(calls[i])])

\* C15: within one candidate's task the stages run strictly in the order
\* render, fetch, normalize, merge, replace, each at most once; a stage
\* starts only after the stage before it succeeded: once a stage has failed
\* the task has ended, no later stage runs, and the task has exactly one
\* outcome, the failure.
C15_StagesInOrder ==
    \A i \in Tasks :
        /\ RunInOrder(i)
        /\ OneOutcome(i)
        /\ env[i].fault # "none" => Returned(i) /\ ret[i] # NilErr

\* The same but for a failure of the rename of step 3.
StagesInOrderButRename ==
    \A i \in Tasks :
        /\ RunInOrder(i)
        /\ OneOutcome(i)
        /\ env[i].fault \notin {"none", "rename"}
             => Returned(i) /\ ret[i] # NilErr

\* C16: any failure in step 3, of the rename of a resume that is a PDF
\* already or of the conversion of one that is not, ends the task with a
\* cause that begins "conversion failed:", and mergePDFs is then not called.
C16_NormalizeFailure ==
    \A i \in Tasks :
        (Returned(i) /\ env[i].fault \in {"rename", "convert"}) =>
            /\ StartsWith(ret[i], <<"conversion failed", ": ">>)
            /\ "mergePDFs" \notin Range(calls[i])

\* The same for the conversion alone.
ConvertFailure ==
    \A i \in Tasks :
        (Returned(i) /\ env[i].fault = "convert") =>
            /\ StartsWith(ret[i], <<"conversion failed", ": ">>)
            /\ "mergePDFs" \notin Range(calls[i])

---------------------------------------------------------------------------
(* The files of the candidates of one request *)

DistinctEmails == \A i, j \in Tasks : i # j => Email(i) # Email(j)

HasDuplicates == \E i, j \in Tasks : i # j /\ Email(i) = Email(j)

\* The files at the paths of task i.
FilesOf(i) ==
    { p \in DOMAIN fs :
        Under(p, CandTempDir(Email(i))) \/ p = FactsheetPath(Email(i)) }

\* C17: in a request whose candidates have pairwise distinct emails, each
\* task's scratch sub-directory and artifact path differ from every other
\* task's, so the files at a task's paths hold nothing another task wrote.
C17_DistinctPaths ==
    (DistinctEmails /\ \A i \in Tasks : tpc[i] # "idle") =>
        \A i \in Tasks :
            /\ OwnFiles(i)
            /\ \A p \in FilesOf(i) : \A k \in 1..Len(fs[p].pages) :
                   fs[p].pages[k].cand = i

\* C18: candidates with the same email are neither rejected nor merged into
\* one: they use the same artifact path and the same scratch sub-directory,
\* each gets its task, the archive has at most one entry per artifact path
\* of the request, and the result counts every candidate of the request,
\* each by its own outcome.
C18_Duplicates ==
    /\ \A i, j \in Tasks :
         Email(i) = Email(j) =>
             /\ FactsheetPath(Email(i)) = FactsheetPath(Email(j))
             /\ CandTempDir(Email(i)) = CandTempDir(Email(j))
    /\ ( /\ HasDuplicates
         /\ req.bindOK
         /\ req.TenantName # << >>
         /\ req.CompanyName # << >> ) =>
           /\ resp.code # 400
           /\ pc \in {"wait", "zip", "respond", "cleanup", "done"}
                => launched = Len(req.Candidates)
    /\ zipErr = "nil" =>
         Cardinality(DOMAIN zipFile.entries)
             <= Cardinality({ FactsheetPath(Email(k)) : k \in Tasks })
    /\ JobResult =>
         /\ resp.total_candidates = Len(req.Candidates)
         /\ resp.processed_successfully = Cardinality(Succeeded)
         /\ resp.errors_count = Cardinality(Failed)

\* Two candidates with the same email both succeeded: the result counts two
\* successes, the archive has the one artifact, and it is not the merged
\* document of both.
C18_Witness ==
    /\ JobResult
    /\ Len(req.Candidates) = 2
    /\ Email(1) = Email(2)
    /\ resp.processed_successfully = 2
    /\ Cardinality(DOMAIN zipFile.entries) = 1
    /\ \E k \in Tasks :
         zipFile.entries[Base(FactsheetPath(Email(1)))].pages # MergedPages(k)

---------------------------------------------------------------------------
(* The names made from an email and from a label *)

\* C19: for every email, the artifact file name and the scratch
\* sub-directory name made from it are one path segment each: the artifact
\* path is an entry of the artifact directory itself, the scratch
\* sub-directory an entry of the scratch directory itself, and both lie in
\* the job's workspace.
C19_SafeSegment ==
    derived.set =>
        /\ DirectChild(derived.factsheetPath, FactsheetDir)
        /\ DirectChild(derived.candTempDir, TempDir)
        /\ Under(derived.factsheetPath, BaseDir)
        /\ Under(derived.candTempDir, BaseDir)

\* The same for the emails without a "/" that are neither empty nor "." nor
\* "..".
SafeSegmentWithoutSeparator ==
    ( /\ derived.set
      /\ \A k \in 1..Len(given) : given[k] # "/"
      /\ given \notin {<< >>, <<".">>, <<".", ".">>} ) =>
        /\ DirectChild(derived.factsheetPath, FactsheetDir)
        /\ DirectChild(derived.candTempDir, TempDir)
        /\ Base(derived.factsheetPath)
               = CandKey(given) \o <<"_factsheet.pdf">>
        /\ Base(derived.candTempDir) = CandKey(given)

Letters ==
    { "a", "b", "c", "d", "e", "f", "g", "h", "i", "j", "k", "l", "m",
      "n", "o", "p", "q", "r", "s", "t", "u", "v", "w", "x", "y", "z",
      "A", "B", "C", "D", "E", "F", "G", "H", "I", "J", "K", "L", "M",
      "N", "O", "P", "Q", "R", "S", "T", "U", "V", "W", "X", "Y", "Z" }

Digits == { "0", "1", "2", "3", "4", "5", "6", "7", "8", "9" }

\* C20: for every label, the result of sanitizeFilename is made of letters,
\* digits and underscores only, has no two underscores in a row, neither
\* starts nor ends with an underscore, and has at most 50 characters.
C20_SanitizedShape ==
    Len(cleaned) >= 1 =>
        LET out == cleaned[1]
        IN  /\ \A k \in 1..Len(out) : out[k] \in Letters \cup Digits \cup {"_"}
            /\ ~HasDouble(out)
            /\ Len(out) > 0 => out[1] # "_" /\ out[Len(out)] # "_"
            /\ Len(out) <= MaxNameLen

\* What does hold of every result: none of the sixteen replaced characters,
\* no two underscores in a row, no underscore at the start, at most 50
\* characters.
SanitizedShapeOfReplaced ==
    Len(cleaned) >= 1 =>
        LET out == cleaned[1]
        IN  /\ \A k \in 1..Len(out) : out[k] \notin UnsafeChars
            /\ ~HasDouble(out)
            /\ Len(out) > 0 => out[1] # "_"
            /\ Len(out) <= MaxNameLen
            /\ Len(Trim(Collapse(ReplaceUnsafe(given)))) <= MaxNameLen
                 => (Len(out) > 0 => out[Len(out)] # "_")

---------------------------------------------------------------------------
(* The life of a job *)

\* The handler and its goroutines keep being scheduled, and every call of a
\* collaborator returns: a step that can be taken is taken in the end.
FairSpec == Spec /\ WF_vars(Next)

\* The request passed the three validations of processCandidates.
Accepted == Validation(req) = "ok"

\* The archive has been written whole.
ArchiveBuilt == zipFile.exists /\ zipFile.complete

\* The order of the steps of a job: no call of zipFolder and no response
\* while a task has not ended, the job result only with the archive built,
\* the 500 only after zipFolder failed, the workspace deleted only after the
\* response.
LifecycleOrder ==
    /\ (zipCalls >= 1 \/ resp.code \in {200, 500})
         => \A i \in Tasks : tpc[i] = "done"
    /\ zipFile # NoZip => zipCalls = 1
    /\ resp.code = 200 => zipErr = "nil" /\ ArchiveBuilt
    /\ resp.code = 500 => zipErr = "error"
    /\ (Accepted /\ workspace = "deleted") => resp.code \in {200, 500}

---------------------------------------------------------------------------
(* downloadFile *)

\* Task i has called downloadFile and it has returned.
Downloaded(i) == Len(calls[i]) >= 2 \/ (Len(calls[i]) = 1 /\ tpc[i] = "normalize")

\* downloadFile returned an error to task i.
DownloadFailed(i) ==
    /\ Returned(i)
    /\ ret[i] # NilErr
    /\ ret[i][1] = StageCause("downloadFile")

\* The request of task i was completed: there is a response with a status.
RequestCompleted(i) == env[i].status # 0

\* A success status: 2xx.
IsSuccessStatus(status) == status \in 200..299

\* The local write of task i failed: os.Create or io.Copy.
WriteFailed(i) == env[i].fault \in {"create", "copy"}

\* C22: downloadFile fails exactly when the request cannot be completed,
\* when the endpoint answers a status that is not 2xx, the error then
\* holding that status, or when the local write fails; a completed request
\* with a 2xx status whose body is written whole is a success.
C22_DownloadFailures ==
    \A i \in Tasks :
        Downloaded(i) =>
            /\ DownloadFailed(i) <=>
                   \/ ~RequestCompleted(i)
                   \/ ~IsSuccessStatus(env[i].status)
                   \/ WriteFailed(i)
            /\ ( /\ DownloadFailed(i)
                 /\ RequestCompleted(i)
                 /\ ~IsSuccessStatus(env[i].status) )
                   => ToString(env[i].status) \in Range(ret[i])

\* The same with 200 as the one success status.
DownloadFailuresStatusOK ==
    \A i \in Tasks :
        Downloaded(i) =>
            /\ DownloadFailed(i) <=>
                   \/ ~RequestCompleted(i)
                   \/ env[i].status # StatusOK
                   \/ WriteFailed(i)
            /\ ( /\ DownloadFailed(i)
                 /\ RequestCompleted(i)
                 /\ env[i].status # StatusOK )
                   => ToString(env[i].status) \in Range(ret[i])

===========================================================================
